---- MODULE Spec2Model ----
(***************************************************************************)
(* EdgeProfileManager (src/edge_profile_manager.py): the profile registry, *)
(* the access history, the active-session mapping and the throttled        *)
(* multi-launch loops, with the Edge WebDriver as the environment.         *)
(*                                                                         *)
(* The manager is single-threaded: one public method runs at a time.  The  *)
(* short methods are one action each; the two launch loops are one action  *)
(* per loop iteration, and no other method starts while a loop runs.       *)
(* File writes are taken to succeed (the _save_* helpers do not raise); a  *)
(* file is known by the mapping the loaders read from it.                  *)
(* A profile's created_at, which no method reads, is left out.             *)
(*                                                                         *)
(* Spec: every method, interleaved, over the names of SessionNames.        *)
(* SpecBatch: one run of open_profiles_in_batches over the names of Names. *)
(* SpecMany: one run of open_multiple_profiles over the names of Names.    *)
(* SpecRegistry: the registry methods with every kind of path and          *)
(* language, the storing of a batch, and open_profile.                     *)
(* SpecRun: batch configurations stored, replaced, removed and run.        *)
(* SpecBatchLive: SpecBatch with the loop's steps taken (weak fairness).   *)
(* SpecLoops: one run of either launch loop.                               *)
(* SpecManager: Spec with set_language_preference.                         *)
(***************************************************************************)
EXTENDS Naturals, Sequences, FiniteSets

\* ------------------------------------------------------------ bounds and inputs

\* Browser sessions the driver creates in one behaviour (session handles are 1..MaxLaunch).
MaxLaunch == 2
\* Longest profile_names list handed to a launch loop between other methods.
MaxLen == 2
\* Longest profile_names list of a launch loop run on its own.
MaxBatchLen == 4
\* Largest batch_size handed to open_profiles_in_batches.
MaxBatchSize == 3
\* Longest profile list stored in a batch configuration that is run.
MaxStoredLen == 3

Names == {"a", "b", "ghost"}
\* The batch_size arguments of a batch run made between other methods.
SessionBatchSizes == {1, 2}
\* The names the registry methods are called with ("ghost" is never registered).
SessionNames == {"a", "b"}
\* Messages of the WebDriverException a launch can fail with.
DriverErrors == {"session not created"}
LaunchOutcomes == {"ok"} \cup DriverErrors
\* Explicit profile_path and preferred_language arguments of add_profile ("None": omitted).
AddPaths == {<<"Default">>}
AddLanguages == {"None"}
\* Largest n of an auto-generated path "Profile n".
MaxProfileNumber == 4
\* The arguments of the registry methods where the registry is examined on its own:
\* an omitted path, a path outside the "Profile n" convention, one inside it.
RegistryPaths == {<<"None">>, <<"Default">>, <<"Profile", "3">>}
RegistryLanguages == {"None", "en-US"}
LanguageCodes == {"en-US"}

\* batch_size, delay_between_profiles and delay_between_batches when the caller omits them.
DefaultBatchSize == 5
DefaultProfileDelay == 2
DefaultBatchDelay == 30
\* The batch names, and the arguments add_batch is called with.
BatchNames == {"daily", "nightly"}
StoredBatchNames == {"daily"}
StoredProfileDelays == {1}
StoredBatchDelays == {10}

VARIABLES
    profiles,        \* self.profiles: name -> [path, preferred_language]
    history,         \* self.history: name -> [last_opened, open_count]
    active_drivers,  \* self.active_drivers: insertion-ordered dict, <<name, handle>> pairs
    batch_config,    \* self.batch_config: batch name -> [profiles, batch_size, profile_delay, batch_delay]
    files,           \* the mappings held by profiles_file, history_file and batch_config_file
    sessions,        \* the driver's side: sessions[h] = [name, open] for every handle h created so far
    pc,              \* "idle", or the position inside the running launch loop
    args,            \* the arguments of the running (or last) call
    frame,           \* the local variables of the running launch loop
    trace,           \* what the running (or last) call asked of the driver and of time.sleep
    ret              \* how the last call ended: returned value or raised error

vars == <<profiles, history, active_drivers, batch_config, files, sessions, pc, args, frame, trace, ret>>

\* ------------------------------------------------------------ python dict (insertion-ordered)

Range(q) == {q[i] : i \in DOMAIN q}
DictKeys(d) == {d[i][1] : i \in DOMAIN d}
DictHas(d, k) == k \in DictKeys(d)
DictGet(d, k) == d[CHOOSE i \in DOMAIN d : d[i][1] = k][2]
DictSet(d, k, v) ==
    IF DictHas(d, k)
    THEN [i \in DOMAIN d |-> IF d[i][1] = k THEN <<k, v>> ELSE d[i]]
    ELSE Append(d, <<k, v>>)
DictDel(d, k) == SelectSeq(d, LAMBDA e : e[1] # k)

\* A mapping with one key removed / one key set (plain dict whose order is not observed).
MapDel(f, k) == [x \in DOMAIN f \ {k} |-> f[x]]
MapSet(f, k, v) == [x \in DOMAIN f \cup {k} |-> IF x = k THEN v ELSE f[x]]

\* ------------------------------------------------------------ the driver and the clock

\* The part of the state a method reads and writes, as one value.
Mem == [profiles |-> profiles, history |-> history, active_drivers |-> active_drivers,
        batch_config |-> batch_config, files |-> files, sessions |-> sessions,
        trace |-> << >>]

\* One request to the driver or to time.sleep, made while input position pos was processed.
Event(kind, arg, result, pos) == [kind |-> kind, arg |-> arg, result |-> result, pos |-> pos]

\* webdriver.Edge(options): the request is made; on "ok" a new session exists and its
\* handle is returned, otherwise WebDriverException(outcome) is raised.
WebDriverEdge(m, profile_name, outcome, pos) ==
    LET asked == [m EXCEPT !.trace = Append(@, Event("launch", profile_name, outcome, pos))]
    IN IF outcome = "ok"
       THEN [m |-> [asked EXCEPT !.sessions = Append(@, [name |-> profile_name, open |-> TRUE])],
             handle |-> Len(m.sessions) + 1]
       ELSE [m |-> asked, handle |-> 0]

\* What the driver keeps of a session it has closed: that its handle was used.
Closed == [name |-> "", open |-> FALSE]

\* driver.quit(): the request is made; when it raises, the session is left as it was.
DriverQuit(m, profile_name, handle, quit_ok) ==
    LET asked == [m EXCEPT !.trace =
                     Append(@, Event("quit", profile_name, IF quit_ok THEN "ok" ELSE "error", handle))]
    IN IF quit_ok THEN [asked EXCEPT !.sessions[handle] = Closed] ELSE asked

\* datetime.now(): time is counted in sessions created, so successive launches read
\* strictly increasing times.
Now(m) == Len(m.sessions)

\* ------------------------------------------------------------ open_profile, switch, close_all

\* What stands for the value of a call that has returned none: one that is under way
\* or has raised.
NoValue == [none |-> TRUE]

Raised(m, error, message) == [m |-> m, error |-> error, message |-> message, value |-> NoValue]
Returned(m, value) == [m |-> m, error |-> "", message |-> "", value |-> value]

\* What the loaders read from the three files: the mapping a file holds, and the
\* empty mapping for a file that does not exist or does not parse.
NoFiles == [profiles |-> << >>, history |-> << >>, batch_config |-> << >>]

\* json.dump of the in-memory mapping into its file.
save_profiles(m) == [m EXCEPT !.files.profiles = m.profiles]
save_history(m) == [m EXCEPT !.files.history = m.history]
save_batch_config(m) == [m EXCEPT !.files.batch_config = m.batch_config]

\* self.history.get(profile_name, {}).get("open_count", 0)
OpenCount(h, profile_name) == IF profile_name \in DOMAIN h THEN h[profile_name].open_count ELSE 0

\* Faulty variant: the history entry is overwritten with a count of 1 instead of counted up.
RegisterSession_CountsFromOne(m, profile_name, driver) ==
    save_history(
        [m EXCEPT !.active_drivers = DictSet(@, profile_name, driver),
                  !.history = MapSet(@, profile_name, [last_opened |-> Now(m), open_count |-> 1])])

\* The try-body of open_profile after a successful launch (lines 285-296).
RegisterSession(m, profile_name, driver) ==
    save_history(
        [m EXCEPT !.active_drivers = DictSet(@, profile_name, driver),
                  !.history = MapSet(@, profile_name,
                                     [last_opened |-> Now(m),
                                      open_count |-> OpenCount(m.history, profile_name) + 1])])

\* Faulty variant: the history is updated before the launch is attempted.
open_profile_HistoryBeforeLaunch(m, profile_name, outcome, pos) ==
    IF profile_name \notin DOMAIN m.profiles
    THEN Raised(m, "ValueError", "does not exist")
    ELSE LET d == WebDriverEdge(m, profile_name, outcome, pos)
             counted == [d.m EXCEPT !.history =
                            MapSet(@, profile_name,
                                   [last_opened |-> Now(d.m),
                                    open_count |-> OpenCount(m.history, profile_name) + 1])]
         IN IF outcome = "ok"
            THEN Returned([counted EXCEPT !.active_drivers = DictSet(@, profile_name, d.handle)],
                          d.handle)
            ELSE Raised(counted, "WebDriverException", outcome)

\* Faulty variant: the session already tracked for the name is quit before the new
\* handle is stored.
open_profile_ClosesPrior(m, profile_name, outcome, pos) ==
    IF profile_name \notin DOMAIN m.profiles
    THEN Raised(m, "ValueError", "does not exist")
    ELSE LET d == WebDriverEdge(m, profile_name, outcome, pos)
             prior == IF DictHas(m.active_drivers, profile_name)
                      THEN DriverQuit(d.m, profile_name, DictGet(m.active_drivers, profile_name), TRUE)
                      ELSE d.m
         IN IF outcome = "ok"
            THEN Returned(RegisterSession(prior, profile_name, d.handle), d.handle)
            ELSE Raised(d.m, "WebDriverException", outcome)

\* Faulty variant: the browser is launched before the registry is consulted.
open_profile_LaunchBeforeCheck(m, profile_name, outcome, pos) ==
    LET d == WebDriverEdge(m, profile_name, outcome, pos)
    IN IF outcome # "ok"
       THEN Raised(d.m, "WebDriverException", outcome)
       ELSE IF profile_name \notin DOMAIN m.profiles
            THEN Raised(d.m, "ValueError", "does not exist")
            ELSE Returned(RegisterSession(d.m, profile_name, d.handle), d.handle)

open_profile(m, profile_name, outcome, pos) ==
    IF profile_name \notin DOMAIN m.profiles
    THEN Raised(m, "ValueError", "does not exist")
    ELSE LET d == WebDriverEdge(m, profile_name, outcome, pos)
         IN IF outcome = "ok"
            THEN Returned(RegisterSession(d.m, profile_name, d.handle), d.handle)
            ELSE Raised(d.m, "WebDriverException", outcome)

\* The close of from_profile in switch_to_profile (lines 314-320).
CloseTracked(m, profile_name, driver, quit_ok) ==
    LET q == DriverQuit(m, profile_name, driver, quit_ok)
    IN IF quit_ok THEN [q EXCEPT !.active_drivers = DictDel(@, profile_name)] ELSE q

\* Faulty variant: a failed close of from_profile is raised instead of logged.
switch_to_profile_RaisesOnClose(m, from_profile, to_profile, quit_ok, outcome) ==
    LET tracked == DictHas(m.active_drivers, from_profile)
        closed == IF tracked
                  THEN CloseTracked(m, from_profile, DictGet(m.active_drivers, from_profile), quit_ok)
                  ELSE m
    IN IF tracked /\ ~quit_ok
       THEN Raised(closed, "WebDriverException", "quit failed")
       ELSE open_profile(closed, to_profile, outcome, 0)

\* Faulty variant: to_profile is looked up before from_profile is closed.
switch_to_profile_ChecksTargetFirst(m, from_profile, to_profile, quit_ok, outcome) ==
    IF to_profile \notin DOMAIN m.profiles
    THEN Raised(m, "ValueError", "does not exist")
    ELSE open_profile(IF DictHas(m.active_drivers, from_profile)
                      THEN CloseTracked(m, from_profile,
                                        DictGet(m.active_drivers, from_profile), quit_ok)
                      ELSE m,
                      to_profile, outcome, 0)

\* Faulty variant: a from_profile without a tracked session is an error.
switch_to_profile_RequiresActive(m, from_profile, to_profile, quit_ok, outcome) ==
    IF DictHas(m.active_drivers, from_profile)
    THEN open_profile(CloseTracked(m, from_profile, DictGet(m.active_drivers, from_profile),
                                   quit_ok),
                      to_profile, outcome, 0)
    ELSE Raised(m, "ValueError", "not open")

switch_to_profile(m, from_profile, to_profile, quit_ok, outcome) ==
    LET closed == IF DictHas(m.active_drivers, from_profile)
                  THEN CloseTracked(m, from_profile, DictGet(m.active_drivers, from_profile), quit_ok)
                  ELSE m
    IN open_profile(closed, to_profile, outcome, 0)

\* Faulty variant: the loop ends at the first quit() that raises.
RECURSIVE CloseLoop_StopsAtFailure(_, _, _, _, _)
CloseLoop_StopsAtFailure(m, items, i, count, failing) ==
    IF i > Len(items)
    THEN Returned(m, count)
    ELSE LET profile_name == items[i][1]
             driver == items[i][2]
             quit_ok == driver \notin failing
             after == CloseTracked(m, profile_name, driver, quit_ok)
         IN IF quit_ok
            THEN CloseLoop_StopsAtFailure(after, items, i + 1, count + 1, failing)
            ELSE Returned(after, count)

\* The loop of close_all_profiles over list(self.active_drivers.items()), from item i on;
\* failing: the handles whose quit() raises.
RECURSIVE CloseLoop(_, _, _, _, _)
CloseLoop(m, items, i, count, failing) ==
    IF i > Len(items)
    THEN Returned(m, count)
    ELSE LET profile_name == items[i][1]
             driver == items[i][2]
             quit_ok == driver \notin failing
         IN CloseLoop(CloseTracked(m, profile_name, driver, quit_ok), items, i + 1,
                      IF quit_ok THEN count + 1 ELSE count, failing)

close_all_profiles(m, failing) == CloseLoop(m, m.active_drivers, 1, 0, failing)

\* ------------------------------------------------------------ the registry

\* A path is the list of its space-separated words, path.split(" "): "Profile 2" is
\* <<"Profile", "2">>.  Numerals[n] is str(n); int(word) is its inverse and raises
\* ValueError on any other word.
Numerals == <<"1", "2", "3", "4", "5", "6", "7", "8", "9">>
IsNumeral(word) == \E n \in DOMAIN Numerals : Numerals[n] = word
Int(word) == CHOOSE n \in DOMAIN Numerals : Numerals[n] = word

\* The numbers collected by the scan of add_profile (lines 177-185).
ProfileNumbers(p) ==
    {Int(p[name].path[2]) : name \in {x \in DOMAIN p : /\ Len(p[x].path) >= 2
                                                        /\ p[x].path[1] = "Profile"
                                                        /\ IsNumeral(p[x].path[2])}}

Max(S) == CHOOSE x \in S : \A y \in S : y <= x

\* Faulty variant: the smallest number no path holds is taken, so gaps are filled.
NextNumber_FillsGaps(p) ==
    CHOOSE n \in DOMAIN Numerals :
        /\ n \notin ProfileNumbers(p)
        /\ \A k \in 1..(n - 1) : k \in ProfileNumbers(p)

\* next_number of add_profile (lines 187-189).
NextNumber(p) == IF ProfileNumbers(p) # {} THEN Max(ProfileNumbers(p)) + 1 ELSE 1

\* Faulty variant: a registered name is written over with the new record.
add_profile_Overwrites(m, profile_name, profile_path, preferred_language) ==
    LET path == IF profile_path = <<"None">>
                THEN <<"Profile", Numerals[NextNumber(m.profiles)]>>
                ELSE profile_path
        written == [m EXCEPT !.profiles =
                       MapSet(@, profile_name,
                              [path |-> path, preferred_language |-> preferred_language])]
    IN Returned(save_profiles(written), profile_name \notin DOMAIN m.profiles)

add_profile(m, profile_name, profile_path, preferred_language) ==
    IF profile_name \in DOMAIN m.profiles
    THEN Returned(m, FALSE)
    ELSE LET path == IF profile_path = <<"None">>
                     THEN <<"Profile", Numerals[NextNumber(m.profiles)]>>
                     ELSE profile_path
         IN Returned(save_profiles(
                         [m EXCEPT !.profiles =
                             MapSet(@, profile_name,
                                    [path |-> path, preferred_language |-> preferred_language])]),
                     TRUE)

\* Faulty variant: the history entry of the removed profile is kept.
remove_profile_KeepsHistory(m, profile_name) ==
    IF profile_name \notin DOMAIN m.profiles
    THEN Returned(m, FALSE)
    ELSE Returned(save_profiles([m EXCEPT !.profiles = MapDel(@, profile_name)]), TRUE)

\* Faulty variant: the tracked session of the removed profile is closed and untracked.
remove_profile_ClosesSession(m, profile_name) ==
    IF profile_name \notin DOMAIN m.profiles
    THEN Returned(m, FALSE)
    ELSE LET closed == IF DictHas(m.active_drivers, profile_name)
                       THEN CloseTracked(m, profile_name,
                                         DictGet(m.active_drivers, profile_name), TRUE)
                       ELSE m
             deleted == save_profiles([closed EXCEPT !.profiles = MapDel(@, profile_name)])
         IN Returned(IF profile_name \in DOMAIN m.history
                     THEN save_history([deleted EXCEPT !.history = MapDel(@, profile_name)])
                     ELSE deleted,
                     TRUE)

\* Faulty variant: the history entry is deleted in memory and the file is not rewritten.
remove_profile_HistoryNotSaved(m, profile_name) ==
    IF profile_name \notin DOMAIN m.profiles
    THEN Returned(m, FALSE)
    ELSE Returned(save_profiles([m EXCEPT !.profiles = MapDel(@, profile_name),
                                          !.history = IF profile_name \in DOMAIN @
                                                      THEN MapDel(@, profile_name) ELSE @]),
                  TRUE)

remove_profile(m, profile_name) ==
    IF profile_name \notin DOMAIN m.profiles
    THEN Returned(m, FALSE)
    ELSE LET deleted == save_profiles([m EXCEPT !.profiles = MapDel(@, profile_name)])
         IN Returned(IF profile_name \in DOMAIN m.history
                     THEN save_history([deleted EXCEPT !.history = MapDel(@, profile_name)])
                     ELSE deleted,
                     TRUE)

\* Faulty variant: an unregistered name is an error raised to the caller.
set_language_preference_RaisesOnMissing(m, profile_name, language_code) ==
    IF profile_name \notin DOMAIN m.profiles
    THEN Raised(m, "ValueError", "does not exist")
    ELSE Returned(save_profiles(
                      [m EXCEPT !.profiles[profile_name].preferred_language = language_code]),
                  TRUE)

set_language_preference(m, profile_name, language_code) ==
    IF profile_name \notin DOMAIN m.profiles
    THEN Returned(m, FALSE)
    ELSE Returned(save_profiles(
                      [m EXCEPT !.profiles[profile_name].preferred_language = language_code]),
                  TRUE)

\* Faulty variant: the names without a tracked session are returned.
get_unopened_profiles_Untracked(m) ==
    Returned(m, {name \in DOMAIN m.profiles : ~DictHas(m.active_drivers, name)})

\* The returned list holds each registered name at most once, in the registry's order;
\* the registry's order is not kept here, so the list is given as the set of its names.
get_unopened_profiles(m) ==
    Returned(m, {name \in DOMAIN m.profiles : name \notin DOMAIN m.history})

\* ------------------------------------------------------------ the batch configurations

add_batch(m, batch_name, profile_names, batch_size, profile_delay, batch_delay) ==
    Returned(save_batch_config(
                 [m EXCEPT !.batch_config =
                     MapSet(@, batch_name,
                            [profiles |-> profile_names, batch_size |-> batch_size,
                             profile_delay |-> profile_delay, batch_delay |-> batch_delay])]),
             "None")

remove_batch(m, batch_name) ==
    IF batch_name \in DOMAIN m.batch_config
    THEN Returned(save_batch_config([m EXCEPT !.batch_config = MapDel(@, batch_name)]), TRUE)
    ELSE Returned(m, FALSE)

\* ------------------------------------------------------------ open_profiles_in_batches

\* time.sleep(seconds), seconds being the parameter named `which`.
Sleep(m, which, pos) == [m EXCEPT !.trace = Append(@, Event("sleep", which, "ok", pos))]

Min(x, y) == IF x <= y THEN x ELSE y

\* [profile_names[i:i + batch_size] for i in range(0, len(profile_names), batch_size)]
Batches(profile_names, batch_size) ==
    [j \in 1..((Len(profile_names) + batch_size - 1) \div batch_size) |->
        SubSeq(profile_names, (j - 1) * batch_size + 1,
               Min(j * batch_size, Len(profile_names)))]

NoResults == [successful |-> << >>, failed |-> << >>, skipped |-> << >>]

\* Faulty variant: the name is appended to successful before the launch is attempted.
BatchIteration_SuccessBeforeOpen(m, results, profile_name, skip_missing, outcome, pos) ==
    IF profile_name \notin DOMAIN m.profiles
    THEN IF skip_missing
         THEN [m |-> m, results |-> [results EXCEPT !.skipped = Append(@, profile_name)],
               raised |-> FALSE]
         ELSE [m |-> m, results |-> results, raised |-> TRUE]
    ELSE LET r == open_profile(m, profile_name, outcome, pos)
             counted == [results EXCEPT !.successful = Append(@, profile_name)]
         IN IF r.error = ""
            THEN [m |-> Sleep(r.m, "delay_between_profiles", pos), results |-> counted,
                  raised |-> FALSE]
            ELSE [m |-> r.m,
                  results |-> [counted EXCEPT !.failed =
                                  Append(@, [profile |-> profile_name, error |-> r.message])],
                  raised |-> FALSE]

\* Faulty variant: an unregistered name is skipped whatever skip_missing says.
BatchIteration_AlwaysSkips(m, results, profile_name, skip_missing, outcome, pos) ==
    IF profile_name \notin DOMAIN m.profiles
    THEN [m |-> m, results |-> [results EXCEPT !.skipped = Append(@, profile_name)],
          raised |-> FALSE]
    ELSE LET r == open_profile(m, profile_name, outcome, pos)
         IN IF r.error = ""
            THEN [m |-> Sleep(r.m, "delay_between_profiles", pos),
                  results |-> [results EXCEPT !.successful = Append(@, profile_name)],
                  raised |-> FALSE]
            ELSE [m |-> r.m,
                  results |-> [results EXCEPT !.failed =
                                  Append(@, [profile |-> profile_name, error |-> r.message])],
                  raised |-> FALSE]

\* Faulty variant: an abort forgets the sessions tracked so far.
BatchIteration_UntracksOnAbort(m, results, profile_name, skip_missing, outcome, pos) ==
    IF profile_name \notin DOMAIN m.profiles
    THEN IF skip_missing
         THEN [m |-> m, results |-> [results EXCEPT !.skipped = Append(@, profile_name)],
               raised |-> FALSE]
         ELSE [m |-> [m EXCEPT !.active_drivers = << >>], results |-> results, raised |-> TRUE]
    ELSE LET r == open_profile(m, profile_name, outcome, pos)
         IN IF r.error = ""
            THEN [m |-> Sleep(r.m, "delay_between_profiles", pos),
                  results |-> [results EXCEPT !.successful = Append(@, profile_name)],
                  raised |-> FALSE]
            ELSE [m |-> r.m,
                  results |-> [results EXCEPT !.failed =
                                  Append(@, [profile |-> profile_name, error |-> r.message])],
                  raised |-> FALSE]

\* Faulty variant: a launch that failed is attempted a second time.
BatchIteration_RetriesFailedLaunch(m, results, profile_name, skip_missing, outcome, pos) ==
    IF profile_name \notin DOMAIN m.profiles
    THEN IF skip_missing
         THEN [m |-> m, results |-> [results EXCEPT !.skipped = Append(@, profile_name)],
               raised |-> FALSE]
         ELSE [m |-> m, results |-> results, raised |-> TRUE]
    ELSE LET first == open_profile(m, profile_name, outcome, pos)
             r == IF first.error = "" THEN first ELSE open_profile(first.m, profile_name, "ok", pos)
         IN [m |-> Sleep(r.m, "delay_between_profiles", pos),
             results |-> [results EXCEPT !.successful = Append(@, profile_name)],
             raised |-> FALSE]

\* One iteration of the inner loop (lines 440-457) for profile_name, the pos-th name
\* of the input: the memory and the results after it, or raised.
BatchIteration(m, results, profile_name, skip_missing, outcome, pos) ==
    IF profile_name \notin DOMAIN m.profiles
    THEN IF skip_missing
         THEN [m |-> m, results |-> [results EXCEPT !.skipped = Append(@, profile_name)],
               raised |-> FALSE]
         ELSE [m |-> m, results |-> results, raised |-> TRUE]
    ELSE LET r == open_profile(m, profile_name, outcome, pos)
         IN IF r.error = ""
            THEN [m |-> Sleep(r.m, "delay_between_profiles", pos),
                  results |-> [results EXCEPT !.successful = Append(@, profile_name)],
                  raised |-> FALSE]
            ELSE [m |-> r.m,
                  results |-> [results EXCEPT !.failed =
                                  Append(@, [profile |-> profile_name, error |-> r.message])],
                  raised |-> FALSE]

\* Faulty variant: a failed launch ends the loop with an error.
ManyIteration_RaisesOnFailure(m, drivers, profile_name, skip_missing, outcome, pos) ==
    IF profile_name \notin DOMAIN m.profiles
    THEN [m |-> m, drivers |-> drivers, raised |-> ~skip_missing]
    ELSE LET r == open_profile(m, profile_name, outcome, pos)
         IN IF r.error = ""
            THEN [m |-> Sleep(r.m, "delay_between", pos),
                  drivers |-> DictSet(drivers, profile_name, r.value),
                  raised |-> FALSE]
            ELSE [m |-> r.m, drivers |-> drivers, raised |-> TRUE]

\* One iteration of the loop of open_multiple_profiles (lines 377-392).
ManyIteration(m, drivers, profile_name, skip_missing, outcome, pos) ==
    IF profile_name \notin DOMAIN m.profiles
    THEN [m |-> m, drivers |-> drivers, raised |-> ~skip_missing]
    ELSE LET r == open_profile(m, profile_name, outcome, pos)
         IN IF r.error = ""
            THEN [m |-> Sleep(r.m, "delay_between", pos),
                  drivers |-> DictSet(drivers, profile_name, r.value),
                  raised |-> FALSE]
            ELSE [m |-> r.m, drivers |-> drivers, raised |-> FALSE]

\* Faulty variant: the batch delay is slept after the last batch too.
SleepsAfterBatch_AlsoLast(batch_num, batches) == batch_num <= Len(batches)

\* The tail of the outer loop (lines 460-462): whether the batch delay is slept.
SleepsAfterBatch(batch_num, batches) == batch_num < Len(batches)

\* ------------------------------------------------------------ actions

NoFrame == [results |-> NoResults, drivers |-> << >>, batches |-> << >>, batch_num |-> 0,
            k |-> 0, consumed |-> 0]
NoArgs == [op |-> "", profile_names |-> << >>, batch_size |-> 0, skip_missing |-> TRUE,
           batch_name |-> "", delay_between_profiles |-> 0, delay_between_batches |-> 0,
           profile_path |-> << >>, preferred_language |-> "", language_code |-> ""]
Args(op, profile_names) == [NoArgs EXCEPT !.op = op, !.profile_names = profile_names]

Apply(m) ==
    /\ profiles' = m.profiles
    /\ history' = m.history
    /\ active_drivers' = m.active_drivers
    /\ batch_config' = m.batch_config
    /\ files' = m.files
    /\ sessions' = m.sessions
    /\ trace' = m.trace

Ret(op, status, error, message, value) ==
    [op |-> op, status |-> status, error |-> error, message |-> message, value |-> value]
RetOf(op, r) == Ret(op, IF r.error = "" THEN "returned" ELSE "raised", r.error, r.message, r.value)

\* A method that runs to its end in one step.
Call(a, r) ==
    /\ pc = "idle"
    /\ Len(r.m.sessions) <= MaxLaunch
    /\ Apply(r.m)
    /\ args' = a
    /\ ret' = RetOf(a.op, r)
    /\ UNCHANGED <<pc, frame>>

AddProfile(profile_name, profile_path, preferred_language) ==
    /\ profile_path = <<"None">> => NextNumber(profiles) <= MaxProfileNumber
    /\ Call([Args("add_profile", <<profile_name>>) EXCEPT
                 !.profile_path = profile_path, !.preferred_language = preferred_language],
            add_profile(Mem, profile_name, profile_path, preferred_language))

RemoveProfile(profile_name) ==
    Call(Args("remove_profile", <<profile_name>>), remove_profile(Mem, profile_name))

OpenProfile(profile_name, outcome) ==
    Call(Args("open_profile", <<profile_name>>), open_profile(Mem, profile_name, outcome, 0))

SwitchToProfile(from_profile, to_profile, quit_ok, outcome) ==
    Call(Args("switch_to_profile", <<from_profile, to_profile>>),
         switch_to_profile(Mem, from_profile, to_profile, quit_ok, outcome))

CloseAllProfiles(failing) ==
    Call(Args("close_all_profiles", << >>), close_all_profiles(Mem, failing))

SetLanguagePreference(profile_name, language_code) ==
    Call([Args("set_language_preference", <<profile_name>>) EXCEPT
              !.language_code = language_code],
         set_language_preference(Mem, profile_name, language_code))

GetUnopenedProfiles ==
    Call(Args("get_unopened_profiles", << >>), get_unopened_profiles(Mem))

AddBatch(batch_name, profile_names, batch_size, profile_delay, batch_delay) ==
    Call([NoArgs EXCEPT !.op = "add_batch", !.batch_name = batch_name,
                        !.profile_names = profile_names, !.batch_size = batch_size,
                        !.delay_between_profiles = profile_delay,
                        !.delay_between_batches = batch_delay],
         add_batch(Mem, batch_name, profile_names, batch_size, profile_delay, batch_delay))

RemoveBatch(batch_name) ==
    Call([NoArgs EXCEPT !.op = "remove_batch", !.batch_name = batch_name],
         remove_batch(Mem, batch_name))

\* The call of open_profiles_in_batches up to the first iteration (lines 425-436);
\* batch_name: the configuration run_batch makes the call for ("": a direct call).
BatchCall(batch_name, profile_names, batch_size, delay_between_profiles, delay_between_batches, skip_missing) ==
    /\ pc = "idle"
    /\ pc' = IF profile_names = << >> THEN "batch_return" ELSE "batch_item"
    /\ args' = [op |-> "open_profiles_in_batches", profile_names |-> profile_names,
                batch_size |-> batch_size, skip_missing |-> skip_missing,
                batch_name |-> batch_name,
                delay_between_profiles |-> delay_between_profiles,
                delay_between_batches |-> delay_between_batches,
                profile_path |-> << >>, preferred_language |-> "", language_code |-> ""]
    /\ frame' = [NoFrame EXCEPT !.batches = Batches(profile_names, batch_size),
                                 !.batch_num = 1, !.k = 1]
    /\ trace' = << >>
    /\ ret' = Ret("open_profiles_in_batches", "running", "", "", NoValue)
    /\ UNCHANGED <<profiles, history, active_drivers, batch_config, files, sessions>>

\* A direct call of open_profiles_in_batches, the delays left to their defaults.
BatchBegin(profile_names, batch_size, skip_missing) ==
    BatchCall("", profile_names, batch_size, DefaultProfileDelay, DefaultBatchDelay, skip_missing)

\* Faulty variant: the stored list is run with skip_missing=False.
RunBatch_AbortsOnMissing(batch_name) ==
    IF batch_name \notin DOMAIN batch_config
    THEN Call([NoArgs EXCEPT !.op = "run_batch", !.batch_name = batch_name],
              Raised(Mem, "ValueError", "not found"))
    ELSE LET config == batch_config[batch_name]
         IN BatchCall(batch_name, config.profiles, config.batch_size, config.profile_delay,
                      config.batch_delay, FALSE)

\* run_batch: the lookup, and the call of open_profiles_in_batches it ends with; the
\* loop then runs by BatchItem, BatchEnd and BatchReturn, whose result run_batch returns.
RunBatch(batch_name) ==
    IF batch_name \notin DOMAIN batch_config
    THEN Call([NoArgs EXCEPT !.op = "run_batch", !.batch_name = batch_name],
              Raised(Mem, "ValueError", "not found"))
    ELSE LET config == batch_config[batch_name]
         IN BatchCall(batch_name, config.profiles, config.batch_size, config.profile_delay,
                      config.batch_delay, TRUE)

\* One iteration of the inner loop.
BatchItem(outcome, cap) ==
    /\ pc = "batch_item"
    /\ LET batch == frame.batches[frame.batch_num]
           pos == frame.consumed + 1
           it == BatchIteration([Mem EXCEPT !.trace = trace], frame.results, batch[frame.k],
                                args.skip_missing, outcome, pos)
       IN /\ Len(it.m.sessions) <= cap
          /\ Apply(it.m)
          /\ IF it.raised
             THEN /\ pc' = "idle"
                  /\ frame' = NoFrame
                  /\ ret' = Ret(args.op, "raised", "ValueError", "does not exist", NoValue)
             ELSE /\ pc' = IF frame.k < Len(batch) THEN "batch_item" ELSE "batch_end"
                  /\ frame' = [frame EXCEPT !.results = it.results, !.k = @ + 1,
                                            !.consumed = pos]
                  /\ UNCHANGED ret
    /\ UNCHANGED args

\* Faulty variant: the loop over the batches does not move on from the end of a batch.
BatchEnd_NeverAdvances ==
    /\ pc = "batch_end"
    /\ UNCHANGED vars

\* The tail of the outer loop, and the step to the next batch.
BatchEnd ==
    /\ pc = "batch_end"
    /\ IF SleepsAfterBatch(frame.batch_num, frame.batches)
       THEN trace' = Sleep([Mem EXCEPT !.trace = trace], "delay_between_batches", frame.consumed).trace
       ELSE UNCHANGED trace
    /\ pc' = IF frame.batch_num < Len(frame.batches) THEN "batch_item" ELSE "batch_return"
    /\ frame' = [frame EXCEPT !.batch_num = @ + 1, !.k = 1]
    /\ UNCHANGED <<profiles, history, active_drivers, batch_config, files, sessions, args, ret>>

\* return results (line 470).
BatchReturn ==
    /\ pc = "batch_return"
    /\ pc' = "idle"
    /\ ret' = Ret(args.op, "returned", "", "", frame.results)
    /\ frame' = NoFrame
    /\ UNCHANGED <<profiles, history, active_drivers, batch_config, files, sessions, args, trace>>

\* The call of open_multiple_profiles up to the first iteration (lines 376-377).
ManyBegin(profile_names, skip_missing) ==
    /\ pc = "idle"
    /\ pc' = IF profile_names = << >> THEN "many_return" ELSE "many_item"
    /\ args' = [NoArgs EXCEPT !.op = "open_multiple_profiles", !.profile_names = profile_names,
                              !.skip_missing = skip_missing]
    /\ frame' = [NoFrame EXCEPT !.k = 1]
    /\ trace' = << >>
    /\ ret' = Ret("open_multiple_profiles", "running", "", "", NoValue)
    /\ UNCHANGED <<profiles, history, active_drivers, batch_config, files, sessions>>

\* One iteration of the loop of open_multiple_profiles.
ManyItem(outcome, cap) ==
    /\ pc = "many_item"
    /\ LET pos == frame.consumed + 1
           it == ManyIteration([Mem EXCEPT !.trace = trace], frame.drivers,
                               args.profile_names[frame.k], args.skip_missing, outcome, pos)
       IN /\ Len(it.m.sessions) <= cap
          /\ Apply(it.m)
          /\ IF it.raised
             THEN /\ pc' = "idle"
                  /\ frame' = NoFrame
                  /\ ret' = Ret(args.op, "raised", "ValueError", "does not exist", NoValue)
             ELSE /\ pc' = IF frame.k < Len(args.profile_names) THEN "many_item" ELSE "many_return"
                  /\ frame' = [frame EXCEPT !.drivers = it.drivers, !.k = @ + 1, !.consumed = pos]
                  /\ UNCHANGED ret
    /\ UNCHANGED args

\* return drivers (line 394).
ManyReturn ==
    /\ pc = "many_return"
    /\ pc' = "idle"
    /\ ret' = Ret(args.op, "returned", "", "", frame.drivers)
    /\ frame' = NoFrame
    /\ UNCHANGED <<profiles, history, active_drivers, batch_config, files, sessions, args, trace>>

\* ------------------------------------------------------------ specification

RECURSIVE SeqsUpTo(_, _)
SeqsUpTo(S, n) ==
    IF n = 0 THEN {<< >>}
    ELSE LET shorter == SeqsUpTo(S, n - 1)
         IN shorter \cup {Append(q, x) : q \in {t \in shorter : Len(t) = n - 1}, x \in S}

Init ==
    /\ profiles = << >>
    /\ history = << >>
    /\ active_drivers = << >>
    /\ batch_config = << >>
    /\ files = NoFiles
    /\ sessions = << >>
    /\ pc = "idle"
    /\ args = NoArgs
    /\ frame = NoFrame
    /\ trace = << >>
    /\ ret = Ret("", "returned", "", "", NoValue)

Next ==
    \/ \E n \in SessionNames, p \in AddPaths, l \in AddLanguages : AddProfile(n, p, l)
    \/ \E n \in SessionNames : RemoveProfile(n)
    \/ \E n \in SessionNames, o \in LaunchOutcomes : OpenProfile(n, o)
    \/ \E f \in SessionNames, t \in SessionNames, q \in BOOLEAN, o \in LaunchOutcomes :
          SwitchToProfile(f, t, q, o)
    \/ \E failing \in SUBSET {e[2] : e \in Range(active_drivers)} : CloseAllProfiles(failing)
    \/ \E ns \in SeqsUpTo(SessionNames, MaxLen), b \in SessionBatchSizes, s \in BOOLEAN :
          BatchBegin(ns, b, s)
    \/ \E o \in LaunchOutcomes : BatchItem(o, MaxLaunch)
    \/ BatchEnd
    \/ BatchReturn
    \/ \E ns \in SeqsUpTo(SessionNames, MaxLen), s \in BOOLEAN : ManyBegin(ns, s)
    \/ \E o \in LaunchOutcomes : ManyItem(o, MaxLaunch)
    \/ ManyReturn
    \/ GetUnopenedProfiles

\* Any interleaving of the manager's methods, from an empty manager.
Spec == Init /\ [][Next]_vars

NextManager ==
    \/ Next
    \/ \E n \in SessionNames, c \in LanguageCodes : SetLanguagePreference(n, c)

\* Every method that changes the registry, the history or the sessions, interleaved,
\* from an empty manager.
SpecManager == Init /\ [][NextManager]_vars

NextRegistry ==
    \/ \E n \in SessionNames, p \in RegistryPaths, l \in RegistryLanguages : AddProfile(n, p, l)
    \/ \E n \in SessionNames : RemoveProfile(n)
    \/ \E n \in SessionNames, c \in LanguageCodes : SetLanguagePreference(n, c)
    \/ \E n \in SessionNames, o \in LaunchOutcomes : OpenProfile(n, o)
    \/ GetUnopenedProfiles
    \/ \E bn \in StoredBatchNames, d \in StoredProfileDelays, e \in StoredBatchDelays :
          AddBatch(bn, <<"a", "ghost">>, DefaultBatchSize, d, e)
    \/ \E bn \in StoredBatchNames : RemoveBatch(bn)

\* The registry methods, the storing of a batch and open_profile, interleaved, from an
\* empty manager.
SpecRegistry == Init /\ [][NextRegistry]_vars

\* The registry of src/example_usage.py, as loaded from the profiles file: "a" and "b"
\* are registered and "ghost" is not.
ExampleProfiles ==
    [n \in SessionNames |->
        [path |-> IF n = "a" THEN <<"Default">> ELSE <<"Profile", "1">>,
         preferred_language |-> "en-US"]]

\* One run of open_profiles_in_batches on a manager constructed over that registry.
InitBatch ==
    /\ profiles = ExampleProfiles
    /\ history = << >>
    /\ active_drivers = << >>
    /\ batch_config = << >>
    /\ files = [NoFiles EXCEPT !.profiles = ExampleProfiles]
    /\ sessions = << >>
    /\ pc = "idle"
    /\ args = NoArgs
    /\ frame = NoFrame
    /\ trace = << >>
    /\ ret = Ret("", "returned", "", "", NoValue)

NextBatch ==
    \/ \E ns \in SeqsUpTo(Names, MaxBatchLen), b \in 1..MaxBatchSize, s \in BOOLEAN :
          ret.op = "" /\ BatchBegin(ns, b, s)
    \/ \E o \in LaunchOutcomes : BatchItem(o, MaxBatchLen)
    \/ BatchEnd
    \/ BatchReturn

SpecBatch == InitBatch /\ [][NextBatch]_vars

\* The steps of a call of open_profiles_in_batches that is under way.
BatchLoop ==
    \/ \E o \in LaunchOutcomes : BatchItem(o, MaxBatchLen)
    \/ BatchEnd
    \/ BatchReturn

\* The same run on its one thread: every launch call returns or raises and every
\* sleep ends, so a call that is under way takes its next step; each step moves pc
\* or the loop counters of frame.
SpecBatchLive == SpecBatch /\ WF_<<pc, frame>>(BatchLoop)

NextMany ==
    \/ \E ns \in SeqsUpTo(Names, MaxBatchLen), s \in BOOLEAN :
          ret.op = "" /\ ManyBegin(ns, s)
    \/ \E o \in LaunchOutcomes : ManyItem(o, MaxBatchLen)
    \/ ManyReturn

\* One run of open_multiple_profiles on a manager constructed over the example registry.
SpecMany == InitBatch /\ [][NextMany]_vars

NextLoops == NextBatch \/ NextMany

\* One run of either launch loop on a manager constructed over the example registry.
SpecLoops == InitBatch /\ [][NextLoops]_vars

NextRun ==
    \/ \E bn \in StoredBatchNames, ns \in SeqsUpTo(Names, MaxStoredLen), b \in SessionBatchSizes,
          d \in StoredProfileDelays, e \in StoredBatchDelays :
          sessions = << >> /\ AddBatch(bn, ns, b, d, e)
    \/ \E bn \in BatchNames : sessions = << >> /\ RemoveBatch(bn)
    \/ \E bn \in BatchNames : sessions = << >> /\ RunBatch(bn)
    \/ \E o \in LaunchOutcomes : BatchItem(o, MaxStoredLen)
    \/ BatchEnd
    \/ BatchReturn

\* Batches stored, replaced and removed, and run_batch called, on a manager constructed
\* over the example registry, until a run has launched a session.
SpecRun == InitBatch /\ [][NextRun]_vars

\* ------------------------------------------------------------ claims: the batch run

BatchOp == "open_profiles_in_batches"
Registered(name) == name \in DOMAIN profiles
IsLaunch(e) == e.kind = "launch"
IsProfileSleep(e) == e.kind = "sleep" /\ e.arg = "delay_between_profiles"
IsBatchSleep(e) == e.kind = "sleep" /\ e.arg = "delay_between_batches"
ArgsOf(events) == [i \in DOMAIN events |-> events[i].arg]

\* C1: a batch run with skip_missing=True that returns puts every input occurrence in
\* exactly one bucket, each bucket in input order: skipped are the unregistered names,
\* successful the registered names whose launch succeeded, failed the registered
\* names whose launch failed, each with the driver's message; the three lengths add
\* up to the length of the input.
C1_Classification ==
    (args.op = BatchOp /\ args.skip_missing /\ ret.status = "returned") =>
        LET names == args.profile_names
            res == ret.value
            launches == SelectSeq(trace, IsLaunch)
            ok == SelectSeq(launches, LAMBDA e : e.result = "ok")
            bad == SelectSeq(launches, LAMBDA e : e.result # "ok")
        IN /\ res.skipped = SelectSeq(names, LAMBDA n : ~Registered(n))
           /\ res.successful = ArgsOf(ok)
           /\ res.failed = [i \in DOMAIN bad |-> [profile |-> bad[i].arg, error |-> bad[i].result]]
           /\ ArgsOf(launches) = SelectSeq(names, Registered)
           /\ \A i \in DOMAIN launches :
                 /\ names[launches[i].pos] = launches[i].arg
                 /\ i > 1 => launches[i - 1].pos < launches[i].pos
           /\ Len(res.successful) + Len(res.failed) + Len(res.skipped) = Len(names)

\* The run over ["a", "ghost", "b"] of the specification, with a failed launch besides.
C1_Witness ==
    /\ args.op = BatchOp /\ args.skip_missing /\ ret.status = "returned"
    /\ args.profile_names = <<"a", "ghost", "b", "a">>
    /\ ret.value.successful = <<"a", "b">>
    /\ ret.value.skipped = <<"ghost">>
    /\ ret.value.failed = <<[profile |-> "a", error |-> "session not created"]>>

\* The first input position holding an unregistered name (0: there is none).
FirstMissing(names) ==
    IF \E i \in DOMAIN names : ~Registered(names[i])
    THEN CHOOSE i \in DOMAIN names :
            ~Registered(names[i]) /\ \A j \in 1..(i - 1) : Registered(names[j])
    ELSE 0

\* C2: a batch run with skip_missing=False over an input holding an unregistered name
\* never returns a result: it raises ValueError at the first such name, having
\* launched exactly the names before it, and nothing (no launch, no wait) is done for
\* that position or any later one.
C2_AbortAtFirstMissing ==
    (args.op = BatchOp /\ ~args.skip_missing /\ FirstMissing(args.profile_names) > 0) =>
        LET names == args.profile_names
            first == FirstMissing(names)
        IN /\ ret.status # "returned"
           /\ frame.consumed < first
           /\ \A i \in DOMAIN trace : trace[i].pos < first
           /\ ret.status = "raised" =>
                 /\ ret.error = "ValueError"
                 /\ ret.value = NoValue
                 /\ pc = "idle"
                 /\ ArgsOf(SelectSeq(trace, IsLaunch)) = SubSeq(names, 1, first - 1)

\* The run over ["a", "ghost", "b"] with skip_missing=False, aborted after "a" was launched.
C2_Witness ==
    /\ args.op = BatchOp /\ ~args.skip_missing /\ ret.status = "raised"
    /\ args.profile_names = <<"a", "ghost", "b">>
    /\ Registered("a") /\ Registered("b")
    /\ \E i \in DOMAIN trace : IsLaunch(trace[i]) /\ trace[i].arg = "a" /\ trace[i].result = "ok"

\* Whether another name follows input position pos in the same chunk.
MoreInChunk(pos) == pos % args.batch_size # 0 /\ pos < Len(args.profile_names)

\* C6 (as claimed): a delay_between_profiles wait is slept only when another name
\* remains in the same chunk.
C6_NoProfileSleepAfterChunkEnd ==
    args.op = BatchOp =>
        \A i \in DOMAIN trace : IsProfileSleep(trace[i]) => MoreInChunk(trace[i].pos)

\* C7 (as claimed): when a launch fails and another name remains in the same chunk,
\* delay_between_profiles is slept before the next name is processed.
C7_ProfileSleepAfterFailure ==
    args.op = BatchOp =>
        \A i \in DOMAIN trace :
            (/\ IsLaunch(trace[i]) /\ trace[i].result # "ok"
             /\ MoreInChunk(trace[i].pos)
             /\ (pc = "idle" \/ frame.consumed > trace[i].pos))
            => /\ i < Len(trace)
               /\ IsProfileSleep(trace[i + 1])
               /\ trace[i + 1].pos = trace[i].pos

\* C8: the batches are the consecutive chunks of batch_size names of the input, the
\* last possibly shorter; delay_between_batches is slept once after each chunk but the
\* last and nowhere else, so a run that returns has slept it ceil(n / batch_size) - 1
\* times for n > 0 names and never for an empty input.
C8_BatchSleeps ==
    args.op = BatchOp =>
        LET names == args.profile_names
            n == Len(names)
            b == args.batch_size
            sleeps == SelectSeq(trace, IsBatchSleep)
            chunks == IF n = 0 THEN 0 ELSE (n + b - 1) \div b
            done == IF pc = "idle" THEN n ELSE frame.consumed
        IN /\ \A i \in DOMAIN sleeps :
                 /\ sleeps[i].pos = i * b
                 /\ sleeps[i].pos < n
           /\ pc \in {"batch_item", "batch_end", "batch_return"} =>
                 /\ Len(frame.batches) = chunks
                 /\ \A j \in DOMAIN frame.batches :
                       /\ Len(frame.batches[j]) = (IF j < chunks THEN b ELSE n - (chunks - 1) * b)
                       /\ \A k \in DOMAIN frame.batches[j] :
                             frame.batches[j][k] = names[(j - 1) * b + k]
                 /\ frame.consumed = (IF pc = "batch_item"
                                      THEN (frame.batch_num - 1) * b + frame.k - 1
                                      ELSE Min(frame.batch_num * b, n))
                 /\ Len(sleeps) = (IF pc = "batch_item" THEN frame.batch_num - 1
                                   ELSE IF pc = "batch_end" THEN frame.batch_num - 1
                                   ELSE chunks - (IF n = 0 THEN 0 ELSE 1))
           /\ ret.status = "returned" =>
                 Len(sleeps) = (IF n = 0 THEN 0 ELSE chunks - 1)

\* A returned run over four names in chunks of three: one wait, after the third name.
C8_Witness ==
    /\ args.op = BatchOp /\ ret.status = "returned"
    /\ Len(args.profile_names) = 4 /\ args.batch_size = 3
    /\ Len(SelectSeq(trace, IsBatchSleep)) = 1

\* ------------------------------------------------------------ claims: sessions and history

\* The handles of the sessions launched for name and not closed.
LiveSessions(name) == {h \in DOMAIN sessions : sessions[h].open /\ sessions[h].name = name}

\* C3 (as claimed): at most one browser session launched for a name is open at a time.
C3_AtMostOneLiveSessionPerName ==
    \A name \in Names : Cardinality(LiveSessions(name)) <= 1

\* This step created a session for name.
Launched(name) ==
    /\ Len(sessions') = Len(sessions) + 1
    /\ sessions'[Len(sessions')].name = name

\* C4: history is recorded exactly once per successful launch.  In every step that
\* does not remove W: a session created for W counts W's open_count up by one (from 0
\* when W has no entry) and sets last_opened to the time of that launch; any other
\* step (a failed launch of W, a launch of another profile, a close) leaves W's entry
\* as it is.  From an empty history, W's open_count is thus the number of its
\* successful launches and last_opened the time of the latest.
C4_HistoryCountsLaunches ==
    [][\A W \in Names :
          ~(W \in DOMAIN profiles /\ W \notin DOMAIN profiles') =>
              IF Launched(W)
              THEN /\ W \in DOMAIN history'
                   /\ history'[W].open_count = OpenCount(history, W) + 1
                   /\ history'[W].last_opened = Len(sessions')
              ELSE /\ W \in DOMAIN history' <=> W \in DOMAIN history
                   /\ W \in DOMAIN history => history'[W] = history[W]]_vars

\* W = "a" launched twice, the second time in a loop in which the launch of "b" failed.
C4_Witness ==
    /\ "a" \in DOMAIN history /\ history["a"].open_count = 2 /\ history["a"].last_opened = 2
    /\ "b" \notin DOMAIN history
    /\ \E i \in DOMAIN trace : IsLaunch(trace[i]) /\ trace[i].arg = "b" /\ trace[i].result # "ok"
    /\ \E i \in DOMAIN trace : IsLaunch(trace[i]) /\ trace[i].arg = "a" /\ trace[i].result = "ok"

\* The last event of the trace after this step is a failed launch made in this step.
LaunchFailed ==
    /\ trace' # << >>
    /\ IsLaunch(trace'[Len(trace')])
    /\ trace'[Len(trace')].result # "ok"

\* C5: when the driver fails to launch in open_profile, the WebDriverException is
\* raised to the caller with the driver's message, and neither the history nor the
\* active-session mapping (nor the registry) changes; the same holds of the state
\* when the launch loops call open_profile.
C5_FailedLaunchChangesNothing ==
    [][/\ (pc = "idle" /\ pc' = "idle" /\ args'.op = "open_profile" /\ LaunchFailed) =>
             /\ ret'.status = "raised"
             /\ ret'.error = "WebDriverException"
             /\ ret'.message = trace'[Len(trace')].result
             /\ UNCHANGED <<profiles, history, active_drivers, sessions>>
       /\ (pc \in {"batch_item", "many_item"} /\ Len(trace') = Len(trace) + 1 /\ LaunchFailed) =>
             UNCHANGED <<profiles, history, active_drivers, sessions>>]_vars

\* A failed open_profile("a") while "b" is tracked and has history.
C5_Witness ==
    /\ args.op = "open_profile" /\ args.profile_names = <<"a">>
    /\ ret.status = "raised" /\ ret.error = "WebDriverException"
    /\ DictHas(active_drivers, "b") /\ ~DictHas(active_drivers, "a")
    /\ "a" \notin DOMAIN history

\* C9: close_all_profiles asks the driver to quit every session tracked when it is
\* called, in the mapping's order, whether or not an earlier quit raised; it returns
\* (never raises) the number of quits that succeeded, and the mapping afterwards
\* holds exactly the sessions whose quit raised.
C9_CloseAll ==
    [][(pc = "idle" /\ pc' = "idle" /\ args'.op = "close_all_profiles") =>
          LET failed == {trace'[i].pos : i \in {j \in DOMAIN trace' : trace'[j].result # "ok"}}
          IN /\ Len(trace') = Len(active_drivers)
             /\ \A i \in DOMAIN trace' :
                   /\ trace'[i].kind = "quit"
                   /\ trace'[i].arg = active_drivers[i][1]
                   /\ trace'[i].pos = active_drivers[i][2]
             /\ ret'.status = "returned"
             /\ ret'.value = Len(active_drivers) - Cardinality(failed)
             /\ active_drivers' = SelectSeq(active_drivers, LAMBDA e : e[2] \in failed)
             /\ \A i \in DOMAIN active_drivers :
                   sessions'[active_drivers[i][2]] =
                       IF active_drivers[i][2] \in failed
                       THEN sessions[active_drivers[i][2]] ELSE Closed]_vars

\* Two tracked sessions, the quit of the first raised, the second was still closed.
C9_Witness ==
    /\ args.op = "close_all_profiles" /\ ret.status = "returned" /\ ret.value = 1
    /\ Len(trace) = 2 /\ trace[1].result # "ok" /\ trace[2].result = "ok"
    /\ Len(active_drivers) = 1 /\ active_drivers[1][2] = trace[1].pos

\* C10: in switch_to_profile, when from_profile is tracked and its quit raises, the
\* error is swallowed and open_profile(to_profile) is still carried out; the switch
\* ends as that open ends: ValueError when to_profile is not registered, else the
\* launch is requested and the switch returns the new tracked handle or raises the
\* launch's WebDriverException.
C10_SwitchSurvivesCloseFailure ==
    [][(/\ pc = "idle" /\ pc' = "idle" /\ args'.op = "switch_to_profile"
        /\ DictHas(active_drivers, args'.profile_names[1])
        /\ trace' # << >> /\ trace'[1].kind = "quit" /\ trace'[1].result # "ok") =>
          LET to_profile == args'.profile_names[2]
          IN IF to_profile \notin DOMAIN profiles
             THEN /\ ret'.status = "raised" /\ ret'.error = "ValueError"
                  /\ Len(trace') = 1
                  /\ UNCHANGED <<history, active_drivers, sessions>>
             ELSE /\ Len(trace') = 2
                  /\ IsLaunch(trace'[2]) /\ trace'[2].arg = to_profile
                  /\ IF trace'[2].result = "ok"
                     THEN /\ ret'.status = "returned"
                          /\ ret'.value = Len(sessions')
                          /\ Launched(to_profile)
                          /\ active_drivers' = DictSet(active_drivers, to_profile, ret'.value)
                          /\ history'[to_profile].open_count = OpenCount(history, to_profile) + 1
                     ELSE /\ ret'.status = "raised" /\ ret'.error = "WebDriverException"
                          /\ ret'.message = trace'[2].result
                          /\ UNCHANGED <<history, active_drivers, sessions>>]_vars

\* switch_to_profile("a", "b"): the quit of "a" raised, "b" was opened, both are tracked.
C10_Witness ==
    /\ args.op = "switch_to_profile" /\ args.profile_names = <<"a", "b">>
    /\ Len(trace) = 2 /\ trace[1].kind = "quit" /\ trace[1].result # "ok"
    /\ IsLaunch(trace[2]) /\ trace[2].result = "ok"
    /\ ret.status = "returned"
    /\ DictHas(active_drivers, "a") /\ DictHas(active_drivers, "b")

\* C11: switch_to_profile(A, B) when A has no tracked session, A registered or not:
\* the driver is asked for no quit, nothing is raised on account of A, no session is
\* closed and the mapping entries of the names other than B stay as they are, and the
\* call ends and changes the state exactly as open_profile(B) does from the same state.
C11_SwitchWithoutActiveFrom ==
    [][(/\ pc = "idle" /\ pc' = "idle" /\ args'.op = "switch_to_profile"
        /\ ~DictHas(active_drivers, args'.profile_names[1])) =>
          LET to_profile == args'.profile_names[2]
          IN /\ \A i \in DOMAIN trace' : trace'[i].kind # "quit"
             /\ \A h \in DOMAIN sessions : sessions'[h] = sessions[h]
             /\ \A n \in Names \ {to_profile} :
                   /\ DictHas(active_drivers', n) <=> DictHas(active_drivers, n)
                   /\ DictHas(active_drivers, n) =>
                         DictGet(active_drivers', n) = DictGet(active_drivers, n)
             /\ ret'.status = "raised" =>
                   IF to_profile \in DOMAIN profiles
                   THEN ret'.error = "WebDriverException" /\ LaunchFailed
                   ELSE ret'.error = "ValueError" /\ trace' = << >>
             /\ \E o \in LaunchOutcomes :
                   LET r == open_profile(Mem, to_profile, o, 0)
                   IN /\ profiles' = r.m.profiles
                      /\ history' = r.m.history
                      /\ active_drivers' = r.m.active_drivers
                      /\ sessions' = r.m.sessions
                      /\ trace' = r.m.trace
                      /\ ret' = RetOf("switch_to_profile", r)]_vars

\* switch_to_profile("a", "b") with "a" neither registered nor tracked: "b" was
\* launched beside the session "b" already had, and nothing was closed.
C11_Witness ==
    /\ args.op = "switch_to_profile" /\ args.profile_names = <<"a", "b">>
    /\ "a" \notin DOMAIN profiles /\ ~DictHas(active_drivers, "a")
    /\ ret.status = "returned"
    /\ Len(trace) = 1 /\ IsLaunch(trace[1]) /\ trace[1].arg = "b"
    /\ Cardinality(LiveSessions("b")) = 2

\* C14: open_profile of a name that is not registered raises ValueError (not found)
\* without asking the driver for a launch, and leaves the registry, the history, the
\* active-session mapping and the driver's sessions as they were.
C14_OpenUnregistered ==
    [][(/\ pc = "idle" /\ pc' = "idle" /\ args'.op = "open_profile"
        /\ args'.profile_names[1] \notin DOMAIN profiles) =>
          /\ ret'.status = "raised"
          /\ ret'.error = "ValueError"
          /\ trace' = << >>
          /\ UNCHANGED <<profiles, history, active_drivers, batch_config, sessions>>]_vars

\* open_profile("a") refused after "a" was removed while its session was still tracked.
C14_Witness ==
    /\ args.op = "open_profile" /\ args.profile_names = <<"a">>
    /\ ret.status = "raised" /\ ret.error = "ValueError"
    /\ "a" \notin DOMAIN profiles
    /\ DictHas(active_drivers, "a") /\ LiveSessions("a") # {}

\* ------------------------------------------------------------ claims: the registry

\* The call made in this step: a method that ran to its end, with these arguments.
Called(op) == pc = "idle" /\ pc' = "idle" /\ args'.op = op

\* remove_profile(n) called in memory m, after open_profile(n) when o is a launch outcome.
RemoveAfter(m, n, o) ==
    remove_profile(IF o = "unopened" THEN m ELSE open_profile(m, n, o, 0).m, n)

\* C15: for a name that is not registered, add_profile then remove_profile of that
\* name gives back exactly the registry there was before the add, and leaves no
\* history entry for the name, also when the profile was opened in between: a remove
\* that follows the add, with or without an open between them, ends in the registry
\* of before the add.  Step by step: an add of a new name changes no other record,
\* a remove takes away the name's record and its history entry and nothing else.
C15_AddRemoveRoundTrip ==
    [][/\ (Called("add_profile") /\ args'.profile_names[1] \notin DOMAIN profiles) =>
             /\ ret'.value = TRUE
             /\ DOMAIN profiles' = DOMAIN profiles \cup {args'.profile_names[1]}
             /\ \A x \in DOMAIN profiles : profiles'[x] = profiles[x]
             /\ history' = history
             /\ \A o \in LaunchOutcomes \cup {"unopened"} :
                   LET removed == RemoveAfter(Mem', args'.profile_names[1], o)
                   IN /\ removed.value = TRUE
                      /\ removed.m.profiles = profiles
                      /\ args'.profile_names[1] \notin DOMAIN removed.m.history
       /\ (Called("remove_profile") /\ args'.profile_names[1] \in DOMAIN profiles) =>
             /\ ret'.value = TRUE
             /\ DOMAIN profiles' = DOMAIN profiles \ {args'.profile_names[1]}
             /\ \A x \in DOMAIN profiles' : profiles'[x] = profiles[x]
             /\ DOMAIN history' = DOMAIN history \ {args'.profile_names[1]}
             /\ \A x \in DOMAIN history' : history'[x] = history[x]]_vars

\* "a" was added beside "b", opened and removed: its session is still open, the
\* registry holds "b" alone again and the history has no entry for "a".
C15_Witness ==
    /\ args.op = "remove_profile" /\ args.profile_names = <<"a">>
    /\ ret.status = "returned" /\ ret.value = TRUE
    /\ DOMAIN profiles = {"b"} /\ DOMAIN history = {"b"}
    /\ LiveSessions("a") # {}

\* C16: add_profile of a name that is registered returns False and changes nothing:
\* the name's record keeps its path and language whatever path and language the
\* second add supplies, and the registry has the same names as before.
C16_DuplicateAdd ==
    [][(Called("add_profile") /\ args'.profile_names[1] \in DOMAIN profiles) =>
          /\ ret'.status = "returned"
          /\ ret'.value = FALSE
          /\ UNCHANGED <<profiles, history, active_drivers, batch_config, sessions>>]_vars

\* A second add of "a" with another path and another language, refused.
C16_Witness ==
    /\ args.op = "add_profile" /\ args.profile_names = <<"a">>
    /\ ret.status = "returned" /\ ret.value = FALSE
    /\ "a" \in DOMAIN profiles
    /\ args.profile_path \notin {<<"None">>, profiles["a"].path}
    /\ args.preferred_language # profiles["a"].preferred_language

\* The numbers k of the registered paths "Profile k".
PathNumbers == {k \in DOMAIN Numerals :
                   \E x \in DOMAIN profiles : profiles[x].path = <<"Profile", Numerals[k]>>}

C18_NotFoundIsReturned ==
    [][(/\ Called("remove_profile") \/ Called("set_language_preference")
        /\ args'.profile_names[1] \notin DOMAIN profiles) =>
          /\ ret'.status = "returned"
          /\ ret'.value = FALSE
          /\ UNCHANGED <<profiles, history, active_drivers, batch_config, sessions>>]_vars

\* set_language_preference("a") refused while "b" is registered, opened and tracked
\* and a batch is stored.
C18_Witness ==
    /\ args.op = "set_language_preference" /\ args.profile_names = <<"a">>
    /\ ret.status = "returned" /\ ret.value = FALSE
    /\ "a" \notin DOMAIN profiles
    /\ "b" \in DOMAIN profiles /\ "b" \in DOMAIN history /\ DictHas(active_drivers, "b")
    /\ DOMAIN batch_config # {}

\* What get_unopened_profiles returns when called in the present state.
Unopened == get_unopened_profiles(Mem).value

\* C19: get_unopened_profiles returns exactly the registered names without a history
\* entry and changes nothing; and through every step of add, remove, open, switch and
\* the two launch loops these are the registered names with no successful launch
\* since they were last added: a name is among them after a step exactly when it is
\* registered then, no session was launched for it in the step, and before the step
\* it was among them or was not registered.
C19_UnopenedProfiles ==
    [][/\ Called("get_unopened_profiles") =>
             /\ ret'.status = "returned"
             /\ ret'.value = {n \in DOMAIN profiles : n \notin DOMAIN history}
             /\ trace' = << >>
             /\ UNCHANGED <<profiles, history, active_drivers, batch_config, sessions>>
       /\ \A W \in Names :
             W \in Unopened' <=>
                 /\ W \in DOMAIN profiles'
                 /\ ~Launched(W)
                 /\ W \in Unopened \/ W \notin DOMAIN profiles]_vars

\* "a" is returned and "b" is not: "b" was opened; "a" was opened, removed and added
\* again, and its session of before the remove is still open.
C19_Witness ==
    /\ args.op = "get_unopened_profiles" /\ ret.status = "returned"
    /\ ret.value = {"a"}
    /\ DOMAIN profiles = {"a", "b"} /\ "b" \in DOMAIN history
    /\ LiveSessions("a") # {}

\* ------------------------------------------------------------ claims: run_batch

\* A call of open_profiles_in_batches made by run_batch is running or was the last call.
RunOfStored == args.op = BatchOp /\ args.batch_name # ""

\* C20: run_batch of a name that is not stored raises ValueError (not found) and
\* launches nothing.  add_batch stores its arguments under the name, replacing what
\* was stored.  run_batch of a stored name is a call of open_profiles_in_batches
\* with the stored list, batch_size, profile_delay and batch_delay and with
\* skip_missing=True: the run never aborts, and when it returns, the stored names that
\* are not registered are its skipped list, the registered ones were launched in
\* order, and delay_between_batches was slept once after each chunk but the last.
C20_RunBatch ==
    [][/\ Called("run_batch") =>
             /\ args'.batch_name \notin DOMAIN batch_config
             /\ ret'.status = "raised" /\ ret'.error = "ValueError"
             /\ trace' = << >>
             /\ UNCHANGED <<profiles, history, active_drivers, batch_config, sessions>>
       /\ Called("add_batch") =>
             /\ DOMAIN batch_config' = DOMAIN batch_config \cup {args'.batch_name}
             /\ batch_config'[args'.batch_name] =
                    [profiles |-> args'.profile_names, batch_size |-> args'.batch_size,
                     profile_delay |-> args'.delay_between_profiles,
                     batch_delay |-> args'.delay_between_batches]
             /\ \A bn \in DOMAIN batch_config \ {args'.batch_name} :
                   batch_config'[bn] = batch_config[bn]
       /\ (pc = "idle" /\ RunOfStored') =>
             /\ args'.batch_name \in DOMAIN batch_config
             /\ LET config == batch_config[args'.batch_name]
                IN BatchCall(args'.batch_name, config.profiles, config.batch_size,
                             config.profile_delay, config.batch_delay, TRUE)
       /\ RunOfStored' =>
             LET config == batch_config'[args'.batch_name]
                 names == config.profiles
                 chunks == (Len(names) + config.batch_size - 1) \div config.batch_size
             IN /\ args'.profile_names = names
                /\ args'.batch_size = config.batch_size
                /\ args'.delay_between_profiles = config.profile_delay
                /\ args'.delay_between_batches = config.batch_delay
                /\ ret'.status # "raised"
                /\ ret'.status = "returned" =>
                      /\ ret'.value.skipped = SelectSeq(names, LAMBDA n : n \notin DOMAIN profiles')
                      /\ ArgsOf(SelectSeq(trace', IsLaunch)) =
                             SelectSeq(names, LAMBDA n : n \in DOMAIN profiles')
                      /\ Len(ret'.value.successful) + Len(ret'.value.failed)
                            + Len(ret'.value.skipped) = Len(names)
                      /\ Len(SelectSeq(trace', IsBatchSleep)) = (IF names = << >> THEN 0 ELSE chunks - 1)]_vars

\* run_batch("daily") returned: the stored list ["a", "ghost", "b"] was run in chunks of
\* two with the stored delays, "ghost" was skipped and the launch of "b" failed.
C20_Witness ==
    /\ RunOfStored /\ args.batch_name = "daily" /\ ret.status = "returned"
    /\ batch_config["daily"].profiles = <<"a", "ghost", "b">>
    /\ batch_config["daily"].batch_size = 2
    /\ args.delay_between_profiles = 1 /\ args.delay_between_batches = 10
    /\ ret.value.successful = <<"a">> /\ ret.value.skipped = <<"ghost">>
    /\ Len(ret.value.failed) = 1
    /\ Len(SelectSeq(trace, IsBatchSleep)) = 1

\* ------------------------------------------------------------ claims: open_multiple_profiles

ManyOp == "open_multiple_profiles"
IsDelaySleep(e) == e.kind = "sleep" /\ e.arg = "delay_between"

\* C12 (as claimed): in open_multiple_profiles every attempted launch but the one of
\* the final name, succeeded or failed, is followed by a delay_between wait; no
\* wait follows the attempt on the final name, and none is made for a skipped name.
C12_DelayAfterEveryAttemptButLast ==
    args.op = ManyOp =>
        LET n == Len(args.profile_names)
        IN /\ \A i \in DOMAIN trace :
                 IsDelaySleep(trace[i]) =>
                     /\ trace[i].pos < n
                     /\ i > 1 /\ IsLaunch(trace[i - 1]) /\ trace[i - 1].pos = trace[i].pos
           /\ \A i \in DOMAIN trace :
                 (/\ IsLaunch(trace[i]) /\ trace[i].pos < n
                  /\ (pc = "idle" \/ frame.consumed >= trace[i].pos))
                 => /\ i < Len(trace)
                    /\ IsDelaySleep(trace[i + 1])
                    /\ trace[i + 1].pos = trace[i].pos

\* C13: open_multiple_profiles with skip_missing=True never raises, whatever names are
\* unregistered and whatever launches fail: it attempts every registered name of the
\* input in order and returns a mapping whose keys are exactly the names with a
\* successful launch, each mapped to the handle the active-session mapping holds
\* for it, which is the session of the name's last successful launch.
C13_ManyReturnsSucceeded ==
    (args.op = ManyOp /\ args.skip_missing) =>
        /\ ret.status # "raised"
        /\ ret.status = "returned" =>
              LET names == args.profile_names
                  drivers == ret.value
                  launches == SelectSeq(trace, IsLaunch)
                  ok == SelectSeq(launches, LAMBDA e : e.result = "ok")
              IN /\ ArgsOf(launches) = SelectSeq(names, Registered)
                 /\ \A i \in DOMAIN launches : names[launches[i].pos] = launches[i].arg
                 /\ DictKeys(drivers) = {ok[i].arg : i \in DOMAIN ok}
                 /\ \A i, j \in DOMAIN drivers : drivers[i][1] = drivers[j][1] => i = j
                 /\ \A k \in DictKeys(drivers) :
                       /\ DictHas(active_drivers, k)
                       /\ DictGet(drivers, k) = DictGet(active_drivers, k)
                       /\ sessions[DictGet(drivers, k)] = [name |-> k, open |-> TRUE]
                       /\ \A h \in LiveSessions(k) : h <= DictGet(drivers, k)

\* The run over ["a", "ghost", "b", "a"]: "ghost" skipped, the launch of "b" failed,
\* and "a", launched twice, is returned with its second session.
C13_Witness ==
    /\ args.op = ManyOp /\ args.skip_missing /\ ret.status = "returned"
    /\ args.profile_names = <<"a", "ghost", "b", "a">>
    /\ ret.value = <<(<<"a", 2>>)>>
    /\ \E i \in DOMAIN trace : IsLaunch(trace[i]) /\ trace[i].arg = "b" /\ trace[i].result # "ok"

\* C22: every mutating method writes what it changed before it returns: after any
\* sequence of add_profile, remove_profile, set_language_preference, open_profile,
\* add_batch and remove_batch, each of the three files holds the mapping the manager
\* has in memory (the file of an empty mapping may be a file that does not exist).
C22_PersistsImmediately ==
    /\ files.profiles = profiles
    /\ files.history = history
    /\ files.batch_config = batch_config

\* remove_profile("a") returned after "a" and "b" had been opened and a batch stored:
\* the history file holds the entry of "b" alone, as the memory does.
C22_Witness ==
    /\ args.op = "remove_profile" /\ args.profile_names = <<"a">> /\ ret.value = TRUE
    /\ LiveSessions("a") # {}
    /\ DOMAIN history = {"b"} /\ files.history = history
    /\ DOMAIN profiles = {"b"} /\ files.profiles = profiles
    /\ DOMAIN batch_config # {} /\ files.batch_config = batch_config

\* The session with handle h is the value of some entry of the active-session mapping d.
TrackedIn(d, h) == \E i \in DOMAIN d : d[i][2] = h

\* C23: open_profile of a name that has a tracked session, when the launch succeeds,
\* stores the new handle in place of the old one and asks the driver for no quit: the
\* mapping then holds the new handle alone for the name, and the old session stays
\* open and is tracked no more.  A session that is open and not tracked is never
\* closed and never tracked again by any later call, close_all_profiles included.
C23_OverwriteLeaksSession ==
    [][/\ (/\ Called("open_profile") /\ ret'.status = "returned"
           /\ DictHas(active_drivers, args'.profile_names[1])) =>
             LET name == args'.profile_names[1]
                 old == DictGet(active_drivers, name)
             IN /\ \A i \in DOMAIN trace' : trace'[i].kind # "quit"
                /\ ret'.value = Len(sessions') /\ ret'.value # old
                /\ active_drivers' = DictSet(active_drivers, name, ret'.value)
                /\ \A i, j \in DOMAIN active_drivers' :
                      active_drivers'[i][1] = active_drivers'[j][1] => i = j
                /\ sessions'[old] = sessions[old]
                /\ ~TrackedIn(active_drivers', old)
       /\ \A h \in DOMAIN sessions :
             (sessions[h].open /\ ~TrackedIn(active_drivers, h)) =>
                 /\ sessions'[h] = sessions[h]
                 /\ ~TrackedIn(active_drivers', h)]_vars

\* "a" was opened twice and close_all_profiles then closed one session: the first
\* session of "a" is still open and the mapping is empty.
C23_Witness ==
    /\ args.op = "close_all_profiles" /\ ret.status = "returned" /\ ret.value = 1
    /\ active_drivers = << >>
    /\ sessions = <<[name |-> "a", open |-> TRUE], Closed>>
    /\ history["a"].open_count = 2

\* ------------------------------------------------------------ claims: both launch loops

\* C21: in a run of either launch loop the launches are made one after the other in
\* input order.  Every launch event carries the outcome the driver gave before the
\* next request of the run was made; the launch events are for strictly increasing
\* input positions, each for the name at its position, so no occurrence is attempted
\* twice; nothing is asked for a position beyond the ones the loop has reached; and
\* the driver holds exactly the sessions of the successful launch events, in order.
C21_SequentialLaunches ==
    args.op \in {BatchOp, ManyOp} =>
        LET names == args.profile_names
            launches == SelectSeq(trace, IsLaunch)
            ok == SelectSeq(launches, LAMBDA e : e.result = "ok")
            reached == IF pc = "idle" THEN Len(names) ELSE frame.consumed
        IN /\ \A i \in DOMAIN trace :
                 /\ trace[i].pos \in 1..reached
                 /\ i > 1 => trace[i - 1].pos <= trace[i].pos
           /\ \A i \in DOMAIN launches :
                 /\ launches[i].result \in LaunchOutcomes
                 /\ launches[i].arg = names[launches[i].pos]
                 /\ i > 1 => launches[i - 1].pos < launches[i].pos
           /\ Len(sessions) = Len(ok)
           /\ \A h \in DOMAIN sessions : sessions[h] = [name |-> ok[h].arg, open |-> TRUE]

\* A batch run over ["a", "b", "a"] in chunks of two that returned: three launches,
\* at positions 1, 2 and 3, the second of them failed.
C21_Witness ==
    /\ args.op = BatchOp /\ args.batch_size = 2 /\ ret.status = "returned"
    /\ args.profile_names = <<"a", "b", "a">>
    /\ LET launches == SelectSeq(trace, IsLaunch)
       IN /\ Len(launches) = 3
          /\ \A i \in 1..3 : launches[i].pos = i
          /\ launches[2].result # "ok"
    /\ Len(sessions) = 2

\* C24: a run of either launch loop with skip_missing=False that aborts on an
\* unregistered name undoes nothing.  The caller gets a ValueError and no result;
\* every session launched earlier in the run is still open, every name launched
\* successfully is tracked with the session of its last successful launch, and its
\* history entry counts each of its successful launches of the run.
C24_AbortRollsNothingBack ==
    (args.op \in {BatchOp, ManyOp} /\ ret.status = "raised") =>
        LET ok == SelectSeq(trace, LAMBDA e : IsLaunch(e) /\ e.result = "ok")
            OkOf(name) == {i \in DOMAIN ok : ok[i].arg = name}
        IN /\ ~args.skip_missing
           /\ ret.error = "ValueError" /\ ret.value = NoValue
           /\ Len(sessions) = Len(ok)
           /\ \A h \in DOMAIN sessions : sessions[h] = [name |-> ok[h].arg, open |-> TRUE]
           /\ DictKeys(active_drivers) = {ok[i].arg : i \in DOMAIN ok}
           /\ DOMAIN history = {ok[i].arg : i \in DOMAIN ok}
           /\ \A i \in DOMAIN ok :
                 /\ DictGet(active_drivers, ok[i].arg) = Max(OkOf(ok[i].arg))
                 /\ history[ok[i].arg].open_count = Cardinality(OkOf(ok[i].arg))
                 /\ history[ok[i].arg].last_opened = Max(OkOf(ok[i].arg))

\* open_multiple_profiles(["a", "b", "ghost"], skip_missing=False) raised at "ghost":
\* "a" and "b" are tracked and counted, and the caller has no mapping naming them.
C24_Witness ==
    /\ args.op = ManyOp /\ ~args.skip_missing /\ ret.status = "raised"
    /\ args.profile_names = <<"a", "b", "ghost">>
    /\ active_drivers = <<(<<"a", 1>>), (<<"b", 2>>)>>
    /\ history["a"].open_count = 1 /\ history["b"].open_count = 1
    /\ ret.value = NoValue

\* ------------------------------------------------------------ claims: switch, remove, history

\* The last call was a switch_to_profile that asked the driver to quit from_profile's
\* session, with this result.
SwitchClosed(result) ==
    /\ args.op = "switch_to_profile"
    /\ trace # << >> /\ trace[1].kind = "quit" /\ trace[1].result = result

\* C25 (as claimed): after a switch_to_profile whose from_profile had a tracked session
\* that closed cleanly and whose open_profile(to_profile) raised, neither from_profile
\* nor to_profile is tracked; after one whose close failed, from_profile is tracked.
C25_FailedSwitchLeavesNeitherActive ==
    /\ (SwitchClosed("ok") /\ ret.status = "raised") =>
          /\ ~DictHas(active_drivers, args.profile_names[1])
          /\ ~DictHas(active_drivers, args.profile_names[2])
    /\ SwitchClosed("error") => DictHas(active_drivers, args.profile_names[1])

\* C25 (amended): switch_to_profile is not atomic.  When from_profile has a tracked
\* session whose quit succeeds and to_profile is unregistered or its launch fails, the
\* switch raises the error of open_profile(to_profile), ValueError or the driver's
\* WebDriverException, and from_profile's session is closed and its mapping entry
\* deleted; every other entry, the one to_profile may already have included, is as
\* before, so neither is tracked unless to_profile was tracked before the switch.
\* When the quit fails, from_profile's session stays open and from_profile stays
\* tracked while open_profile(to_profile) is carried out.
C25_SwitchNotAtomic ==
    [][(Called("switch_to_profile") /\ DictHas(active_drivers, args'.profile_names[1])) =>
          LET from_profile == args'.profile_names[1]
              to_profile == args'.profile_names[2]
              old == DictGet(active_drivers, from_profile)
          IN /\ trace' # << >> /\ trace'[1].kind = "quit" /\ trace'[1].pos = old
             /\ (trace'[1].result = "ok" /\ (to_profile \notin DOMAIN profiles \/ LaunchFailed)) =>
                   /\ ret'.status = "raised"
                   /\ ret'.error = (IF to_profile \in DOMAIN profiles
                                    THEN "WebDriverException" ELSE "ValueError")
                   /\ to_profile \in DOMAIN profiles => ret'.message = trace'[2].result
                   /\ sessions'[old] = Closed
                   /\ active_drivers' = DictDel(active_drivers, from_profile)
                   /\ UNCHANGED <<profiles, history>>
             /\ trace'[1].result # "ok" =>
                   /\ sessions'[old] = sessions[old] /\ sessions[old].open
                   /\ DictHas(active_drivers', from_profile)
                   /\ to_profile # from_profile =>
                         DictGet(active_drivers', from_profile) = old
                   /\ to_profile \in DOMAIN profiles =>
                         /\ Len(trace') = 2 /\ IsLaunch(trace'[2]) /\ trace'[2].arg = to_profile
                         /\ trace'[2].result = "ok" =>
                               /\ ret'.status = "returned"
                               /\ DictGet(active_drivers', to_profile) = ret'.value]_vars

\* switch_to_profile("a", "b"): the session of "a" was closed, the launch of "b"
\* failed, and nothing is tracked.
C25_Witness ==
    /\ SwitchClosed("ok") /\ args.profile_names = <<"a", "b">>
    /\ ret.status = "raised" /\ ret.error = "WebDriverException"
    /\ "a" \in DOMAIN profiles /\ "b" \in DOMAIN profiles
    /\ active_drivers = << >> /\ sessions = <<Closed>>

\* C26: remove_profile leaves the active-session mapping and the driver's sessions as
\* they were and asks the driver for nothing, so a tracked session of the removed
\* profile stays open and tracked under a name that is no longer registered; and
\* from then on the entry of a tracked, unregistered name is left with its open
\* session by every step other than a close_all_profiles or a switch_to_profile.
C26_RemoveKeepsSession ==
    [][/\ Called("remove_profile") =>
             /\ UNCHANGED <<active_drivers, sessions>>
             /\ trace' = << >>
             /\ \A name \in DictKeys(active_drivers) :
                    sessions'[DictGet(active_drivers', name)].open
       /\ \A name \in DictKeys(active_drivers) \ DOMAIN profiles :
             \/ /\ DictHas(active_drivers', name)
                /\ DictGet(active_drivers', name) = DictGet(active_drivers, name)
                /\ sessions'[DictGet(active_drivers, name)] =
                       [name |-> name, open |-> TRUE]
             \/ args'.op \in {"close_all_profiles", "switch_to_profile"}]_vars

\* remove_profile("a") returned True while the session of "a" is open and tracked.
C26_Witness ==
    /\ args.op = "remove_profile" /\ args.profile_names = <<"a">>
    /\ ret.status = "returned" /\ ret.value = TRUE
    /\ "a" \notin DOMAIN profiles
    /\ DictHas(active_drivers, "a")
    /\ sessions[DictGet(active_drivers, "a")] = [name |-> "a", open |-> TRUE]

\* C27: whatever methods were called on a manager that started with empty stores,
\* every name with a history entry is registered and every open_count is at least 1.
C27_HistoryOfRegistered ==
    /\ DOMAIN history \subseteq DOMAIN profiles
    /\ \A name \in DOMAIN history : history[name].open_count >= 1

\* "a" was opened and then removed, and "b", whose language was set, was opened.
C27_Witness ==
    /\ args.op = "remove_profile" /\ args.profile_names = <<"a">> /\ ret.value = TRUE
    /\ \E h \in DOMAIN sessions : sessions[h].name = "a"
    /\ DOMAIN profiles = {"b"} /\ profiles["b"].preferred_language = "en-US"
    /\ DOMAIN history = {"b"} /\ history["b"].open_count = 1

\* ------------------------------------------------------------ claims: termination

\* Each of these events belongs to an input position of its own.
OncePerOccurrence(events) ==
    /\ \A i \in DOMAIN events : events[i].pos \in DOMAIN args.profile_names
    /\ \A i, j \in DOMAIN events : events[i].pos = events[j].pos => i = j

\* The batch run has ended, by returning or by raising ValueError, after at most one
\* launch and one delay_between_profiles sleep per input occurrence and at most
\* most_batch_sleeps sleeps of delay_between_batches.
BatchEnded(most_batch_sleeps) ==
    /\ pc = "idle" /\ ret.op = BatchOp
    /\ \/ ret.status = "returned"
       \/ ret.status = "raised" /\ ret.error = "ValueError"
    /\ OncePerOccurrence(SelectSeq(trace, IsLaunch))
    /\ \A i \in DOMAIN trace : IsLaunch(trace[i]) => trace[i].arg = args.profile_names[trace[i].pos]
    /\ OncePerOccurrence(SelectSeq(trace, IsProfileSleep))
    /\ Len(SelectSeq(trace, IsBatchSleep)) <= most_batch_sleeps

Chunks == Len(Batches(args.profile_names, args.batch_size))

BatchRunning == ret.op = BatchOp /\ ret.status = "running"

\* C28 (as claimed, its bound on the batch delay): a batch run that has ended, by
\* returning or by raising, has slept delay_between_batches fewer times than there
\* are chunks.
C28_FewerBatchSleepsThanChunks ==
    (pc = "idle" /\ ret.op = BatchOp) => Len(SelectSeq(trace, IsBatchSleep)) < Chunks

\* C28 (amended): a batch run that is under way ends, by returning or by raising
\* ValueError, after at most one launch per input occurrence, at most one
\* delay_between_profiles sleep per input occurrence, and fewer delay_between_batches
\* sleeps than chunks when the input is not empty, none when it is empty.
C28_BatchRunTerminates ==
    BatchRunning ~> BatchEnded(IF Chunks = 0 THEN 0 ELSE Chunks - 1)

\* A run of four names in chunks of two has returned after three launches, one of
\* them failing, and one delay_between_batches sleep.
C28_Witness ==
    /\ pc = "idle" /\ ret.op = BatchOp /\ ret.status = "returned"
    /\ Len(args.profile_names) = 4 /\ args.batch_size = 2
    /\ Len(SelectSeq(trace, IsLaunch)) = 3
    /\ Len(SelectSeq(trace, IsProfileSleep)) = 2
    /\ Len(SelectSeq(trace, IsBatchSleep)) = 1

====
